---- MODULE Spec2Model ----
(***************************************************************************)
(* xlsx2sql: workbook cells -> SqlValue -> INSERT statement text.          *)
(*                                                                         *)
(* A Rust String is modelled as a sequence of one-character strings, so    *)
(* that replace, join and format! are computed character by character.     *)
(* An f64 is modelled by the decimal numeral that Display prints for it:    *)
(* a sign, the digits before the point and the digits after it, at most    *)
(* fifteen in all, and it stands for the binary64 nearest to that numeral. *)
(* The casts and the arithmetic of SqlValue::from are computed on that     *)
(* binary64, m / 2^s, with natural numbers of any size kept as sequences   *)
(* of limbs.                                                               *)
(***************************************************************************)
EXTENDS Integers, Sequences, FiniteSets, TLC

VARIABLES
    pc,              \* position of the run that the specification describes
    workbook,        \* WorkbookData handed to generate (main.rs:109)
    result,          \* what generate returned (main.rs:113)
    statements,      \* statements main still has to format (main.rs:117)
    output_content,  \* the String main accumulates (main.rs:116)
    written,         \* the content handed to the writer (main.rs:134)
    statement,       \* SqlStatement given to format_statement
    sql,             \* String returned by format_statement
    sql_value,       \* SqlValue given to format_sql_value
    escaped,         \* String returned by escape_string
    formatted,       \* String returned by format_sql_value
    data,            \* calamine Data cell given to SqlValue::from
    coerced          \* SqlValue (or abort) SqlValue::from produced

vars == <<pc, workbook, result, statements, output_content, written,
          statement, sql, sql_value, escaped, formatted, data, coerced>>

mainVars == <<workbook, result, statements, output_content, written>>
stmtVars == <<statement, sql>>
valueVars == <<sql_value, escaped, formatted>>
cellVars == <<data, coerced>>

-----------------------------------------------------------------------------
(* Bounds of the model *)

MaxLen == 3        \* longest text drawn from the alphabet
MaxSheets == 2     \* sheets in a workbook
MaxRows == 3       \* rows of a grid (header row included) / rows of a statement
MaxCols == 2       \* cells in a row
MaxTenths == 3     \* fractions of a day drawn densely, in tenths

-----------------------------------------------------------------------------
(* Strings *)

QUOTE == "'"
Alphabet == {QUOTE, "a", ";"}

RECURSIVE StringsOfLen(_)
StringsOfLen(n) ==
    IF n = 0 THEN {<<>>}
    ELSE {<<c>> \o s : c \in Alphabet, s \in StringsOfLen(n - 1)}

Strings == UNION {StringsOfLen(n) : n \in 0..MaxLen}

\* the text of test_sql_injection_prevention
malicious_text ==
    <<"'", ";", " ", "D", "R", "O", "P", " ", "T", "A", "B", "L", "E", " ",
      "u", "s", "e", "r", "s", ";", " ", "-", "-">>

\* replacen(.., 1): only the first quote is doubled
escape_string_first(s) ==
    IF \E i \in 1..Len(s) : s[i] = QUOTE
    THEN LET i == CHOOSE k \in 1..Len(s) :
                      s[k] = QUOTE /\ \A j \in 1..(k - 1) : s[j] # QUOTE
         IN  SubSeq(s, 1, i) \o <<QUOTE>> \o SubSeq(s, i + 1, Len(s))
    ELSE s

\* SqlFormatter::escape_string: every quote replaced by two quotes
RECURSIVE escape_string(_)
escape_string(s) ==
    IF s = <<>> THEN <<>>
    ELSE (IF Head(s) = QUOTE THEN <<QUOTE, QUOTE>> ELSE <<Head(s)>>)
         \o escape_string(Tail(s))

\* format_string_literal that forgets to escape
format_string_literal_raw(s) == <<QUOTE>> \o s \o <<QUOTE>>

\* SqlFormatter::format_string_literal: quote, escape_string(s), quote
format_string_literal(s) == <<QUOTE>> \o escape_string(s) \o <<QUOTE>>

\* the grave accent, which the lexer does not take inside a string
BACKTICK == "BACKTICK"
LF == "\n"

\* SqlFormatter::format_identifier: backtick, name, backtick
format_identifier(name) == <<BACKTICK>> \o name \o <<BACKTICK>>

-----------------------------------------------------------------------------
(* Numbers and their Display *)

SecsPerDay == 86400

Digit(d) == CASE d = 0 -> "0" [] d = 1 -> "1" [] d = 2 -> "2" [] d = 3 -> "3"
              [] d = 4 -> "4" [] d = 5 -> "5" [] d = 6 -> "6" [] d = 7 -> "7"
              [] d = 8 -> "8" [] d = 9 -> "9"

\* decimal digits of a natural number, no leading zero
RECURSIVE NatToString(_)
NatToString(n) ==
    IF n < 10 THEN <<Digit(n)>>
    ELSE NatToString(n \div 10) \o <<Digit(n % 10)>>

\* decimal digits of n, zero-padded on the left to at least w characters
RECURSIVE Pad(_, _)
Pad(n, w) ==
    IF w <= 1 /\ n < 10 THEN <<Digit(n)>>
    ELSE Pad(n \div 10, w - 1) \o <<Digit(n % 10)>>

\* i64 Display (i.to_string())
IntToString(i) == IF i < 0 THEN <<"-">> \o NatToString(-i) ELSE NatToString(i)

\* an f64, by its shortest decimal numeral: int holds the digits before the
\* point (no leading zero unless it is the single digit 0), frac the digits
\* after it (no trailing zero); the value is the binary64 nearest to it
F64(neg, int, frac) == [neg |-> neg, int |-> int, frac |-> frac]

\* the significant digits an f64 numeral of the model may have: every decimal
\* of that many digits is the shortest numeral of the binary64 nearest to it
F64Digits == 15

\* the numerals that are f64 values of the model
IsF64(f) ==
    /\ f.neg \in BOOLEAN
    /\ f.int \in Seq(0..9) /\ f.frac \in Seq(0..9)
    /\ Len(f.int) >= 1 /\ (Len(f.int) > 1 => f.int[1] # 0)
    /\ (f.frac # <<>> => f.frac[Len(f.frac)] # 0)
    /\ Len(f.int) + Len(f.frac) <= F64Digits

\* f64 Display (f.to_string()): the shortest decimal that reads back as the
\* same binary64, never with an exponent
F64ToString(f) ==
    (IF f.neg THEN <<"-">> ELSE <<>>)
    \o [i \in 1..Len(f.int) |-> Digit(f.int[i])]
    \o (IF f.frac = <<>> THEN <<>>
        ELSE <<".">> \o [i \in 1..Len(f.frac) |-> Digit(f.frac[i])])

-----------------------------------------------------------------------------
(* let x = e in Op(x): e is computed first, then Op on its value *)

Let(e, Op(_)) == CHOOSE r \in {Op(x) : x \in {e}} : TRUE

-----------------------------------------------------------------------------
(* Natural numbers of any size: limbs of four decimal digits, the least     *)
(* significant limb first, no zero limb at the end but for zero itself      *)

Base == 10000
LimbDigits == 4

Zeros(n) == [i \in 1..n |-> 0]

\* a without its most significant zero limbs
BigNorm(a) ==
    IF \A i \in 1..Len(a) : a[i] = 0 THEN <<0>>
    ELSE LET top == CHOOSE i \in 1..Len(a) :
                        a[i] # 0 /\ \A j \in (i + 1)..Len(a) : a[j] = 0
         IN  SubSeq(a, 1, top)

\* the i-th limb of a, 0 outside its length
LimbAt(a, i) == IF 1 <= i /\ i <= Len(a) THEN a[i] ELSE 0

\* the number a sequence of decimal digits (most significant first) stands for
BigFromDigits(ds) ==
    LET digit(j) == IF j <= Len(ds) THEN ds[Len(ds) + 1 - j] ELSE 0
        n == (Len(ds) + LimbDigits - 1) \div LimbDigits
    IN  BigNorm(SubSeq([i \in 1..n |->
                           digit(4 * i - 3) + 10 * digit(4 * i - 2)
                           + 100 * digit(4 * i - 1) + 1000 * digit(4 * i)],
                       1, n))

\* the decimal digits of a, most significant first, on all its limbs
BigToDigits(a) ==
    LET n == LimbDigits * Len(a)
        digit(j) == (a[(j + LimbDigits - 1) \div LimbDigits]
                        \div (10 ^ ((j - 1) % LimbDigits))) % 10
    IN  SubSeq([p \in 1..n |-> digit(n + 1 - p)], 1, n)

\* the limbs of a number below 2^31, and the number limbs stand for
NatToBig(n) ==
    BigNorm(<<n % Base, (n \div Base) % Base, n \div (Base * Base)>>)

BigToNat(a) == LimbAt(a, 1) + Base * LimbAt(a, 2) + Base * Base * LimbAt(a, 3)

\* a < b
BigLess(a, b) ==
    \/ Len(a) < Len(b)
    \/ /\ Len(a) = Len(b)
       /\ \E i \in 1..Len(a) :
              a[i] < b[i] /\ \A j \in (i + 1)..Len(a) : a[j] = b[j]

BigLeq(a, b) == a = b \/ BigLess(a, b)

\* a + b: limb j takes a carry when some limb below it overflows and every
\* limb in between is full
BigAdd(a, b) ==
    LET n == (IF Len(a) > Len(b) THEN Len(a) ELSE Len(b)) + 1
        sum(j) == LimbAt(a, j) + LimbAt(b, j)
        carry(j) == IF \E i \in 1..(j - 1) :
                           /\ sum(i) >= Base
                           /\ \A l \in (i + 1)..(j - 1) : sum(l) = Base - 1
                    THEN 1 ELSE 0
    IN  BigNorm(SubSeq([j \in 1..n |-> (sum(j) + carry(j)) % Base], 1, n))

\* a - b, for b <= a: limb j lends when some limb below it falls short and
\* every limb in between is level
BigSub(a, b) ==
    LET n == Len(a)
        borrow(j) == IF \E i \in 1..(j - 1) :
                            /\ LimbAt(a, i) < LimbAt(b, i)
                            /\ \A l \in (i + 1)..(j - 1) :
                                   LimbAt(a, l) = LimbAt(b, l)
                     THEN 1 ELSE 0
    IN  BigNorm(SubSeq([j \in 1..n |->
                           (Base + LimbAt(a, j) - LimbAt(b, j) - borrow(j))
                           % Base], 1, n))

\* the limbs the second factor of a product may have
MaxFactorLimbs == 9

\* a * b, for b of at most MaxFactorLimbs limbs: the sums of the products of
\* the limbs that meet at one place, each split on three limbs, are added up
BigTimes(a, b) ==
    LET n == Len(a) + Len(b) + 1
        at(j, i) == LimbAt(a, j + 1 - i) * LimbAt(b, i)
        meet(j) == ((at(j, 1) + at(j, 2)) + (at(j, 3) + at(j, 4)))
                   + ((at(j, 5) + at(j, 6)) + (at(j, 7) + at(j, 8)))
                   + at(j, 9)
        piece(p) ==
            SubSeq([j \in 1..n |->
                       IF j > p THEN (meet(j - p) \div (Base ^ p)) % Base
                       ELSE 0], 1, n)
    IN  Let(<<piece(0), piece(1), piece(2)>>, LAMBDA p :
            Let(BigAdd(p[1], p[2]), LAMBDA sum : BigAdd(sum, p[3])))

\* the binary places one factor of a power of two may have
PowStep == 30

\* 2^n for n <= 4 * PowStep, as a product of powers below 2^31
BigPow2(n) ==
    LET places(i) == IF n - PowStep * i >= PowStep THEN PowStep
                     ELSE IF n - PowStep * i > 0 THEN n - PowStep * i ELSE 0
        part(i) == NatToBig(2 ^ places(i))
    IN  IF n <= PowStep THEN part(0)
        ELSE Let(BigTimes(part(0), part(1)), LAMBDA low :
                 IF n <= 2 * PowStep THEN low
                 ELSE Let(BigTimes(part(2), part(3)), LAMBDA high :
                          BigTimes(low, high)))

\* the number of binary digits of a natural number below 2^30
BitLength(n) ==
    IF n = 0 THEN 0
    ELSE CHOOSE b \in 1..30 : 2 ^ (b - 1) <= n /\ n < 2 ^ b

-----------------------------------------------------------------------------
(* binary64 *)

\* 2^52: a binary64 has 53 significant bits
TwoPow52 == <<4, 5, 0, 3, 5, 9, 9, 6, 2, 7, 3, 7, 0, 4, 9, 6>>

\* the number of leading zeros of a sequence of digits that is not all zeros
LeadingZeros(ds) ==
    (CHOOSE i \in 1..Len(ds) : ds[i] # 0 /\ \A j \in 1..(i - 1) : ds[j] = 0) - 1

\* the binary places s for which n * 2^s lies between lim and 2 * lim, the
\* mantissa range of a binary64.  digits is the number of decimal digits n
\* has more than lim: each is worth 3.322 binary places, which leaves a
\* handful of places to try
scale(n, lim, digits) ==
    LET guess == 0 - (digits * 3322) \div 1000
    IN  CHOOSE s \in (guess - 3)..(guess + 6) :
            /\ s >= 0
            /\ Let(BigPow2(s), LAMBDA pow :
                   Let(BigTimes(n, pow), LAMBDA t :
                       BigLeq(lim, t) /\ BigLess(t, BigAdd(lim, lim))))

\* the binary64 nearest to the numeral f (ties to even), as m / pow with
\* pow = 2^s and 2^52 <= m <= 2^53; zero is 0 / 2^0.  The digits of f,
\* doubled s times, are cut at the decimal point: the digits before it are m,
\* the digits after it decide the rounding
binary64(f) ==
    LET d == Len(f.frac)
        n == BigFromDigits(f.int \o f.frac)
        lim == BigFromDigits(TwoPow52 \o Zeros(d))
        digits == Len(f.int \o f.frac) - LeadingZeros(f.int \o f.frac)
                  - Len(TwoPow52) - d
        half == IF d = 0 THEN <<1>> ELSE BigFromDigits(<<5>> \o Zeros(d - 1))
        up(q, r) == BigLess(half, r) \/ (r = half /\ q[1] % 2 = 1)
        rounded(q, r) == IF up(q, r) THEN BigAdd(q, <<1>>) ELSE q
        cut(ds) == rounded(BigFromDigits(SubSeq(ds, 1, Len(ds) - d)),
                           BigFromDigits(SubSeq(ds, Len(ds) - d + 1, Len(ds))))
    IN  IF n = <<0>> THEN [m |-> <<0>>, pow |-> <<1>>, s |-> 0]
        ELSE Let(scale(n, lim, digits), LAMBDA s :
                 Let(BigPow2(s), LAMBDA pow :
                     Let(BigTimes(n, pow), LAMBDA t :
                         [m |-> cut(BigToDigits(t)), pow |-> pow, s |-> s])))

\* the binary64 of f split at the binary point: |f| = whole + num / pow
\* with num < pow.  The whole part of the binary64 is that of the numeral, or
\* the next number when the numeral rounds up to it
split_f64(f) ==
    LET n == BigFromDigits(f.int)
        wholes(x) == {[whole |-> w, below |-> BigTimes(w, x.pow)] :
                         w \in {n, BigAdd(n, <<1>>)}}
        split(x, c) == [whole |-> c.whole,
                        num |-> BigSub(x.m, c.below),
                        pow |-> x.pow,
                        s |-> x.s]
    IN  Let(binary64(f), LAMBDA x :
            Let(CHOOSE c \in wholes(x) :
                    /\ BigLeq(c.below, x.m)
                    /\ BigLess(x.m, BigAdd(c.below, x.pow)),
                LAMBDA c : split(x, c)))

-----------------------------------------------------------------------------
(* SqlValue (data_model.rs:23) *)

Null == [kind |-> "Null"]
Text(s) == [kind |-> "Text", s |-> s]
Number(f) == [kind |-> "Number", f |-> f]
Integer(i) == [kind |-> "Integer", i |-> i]
Boolean(b) == [kind |-> "Boolean", b |-> b]
DateTime(s) == [kind |-> "DateTime", s |-> s]

\* MySqlGenerator::format_sql_value
format_sql_value(value) ==
    CASE value.kind = "Null" -> <<"N", "U", "L", "L">>
      [] value.kind = "Text" -> format_string_literal(value.s)
      [] value.kind = "Number" -> F64ToString(value.f)
      [] value.kind = "Integer" -> IntToString(value.i)
      [] value.kind = "Boolean" -> IF value.b THEN <<"1">> ELSE <<"0">>
      [] value.kind = "DateTime" -> <<QUOTE>> \o value.s \o <<QUOTE>>

\* [T]::join(sep) over a sequence of Strings
RECURSIVE Join(_, _)
Join(parts, sep) ==
    IF parts = <<>> THEN <<>>
    ELSE IF Len(parts) = 1 THEN parts[1]
    ELSE parts[1] \o sep \o Join(Tail(parts), sep)

INSERT_INTO == <<"I", "N", "S", "E", "R", "T", " ", "I", "N", "T", "O", " ">>
VALUES_LF == <<" ", "V", "A", "L", "U", "E", "S", LF>>

\* a row whose values are joined like the columns, by comma and space
format_row_spaced(row) ==
    <<"(">>
    \o Join([c \in 1..Len(row) |-> format_sql_value(row[c])], <<",", " ">>)
    \o <<")">>

\* the closure of format_statement that renders one row
format_row(row) ==
    <<"(">> \o Join([c \in 1..Len(row) |-> format_sql_value(row[c])], <<",">>)
    \o <<")">>

SqlStatement(table_name, columns, values) ==
    [table_name |-> table_name, columns |-> columns, values |-> values]

\* MySqlGenerator::format_statement
format_statement(stmt) ==
    LET table_name == format_identifier(stmt.table_name)
        columns == Join([c \in 1..Len(stmt.columns) |->
                            format_identifier(stmt.columns[c])], <<",", " ">>)
        values_str == Join([r \in 1..Len(stmt.values) |->
                               format_row(stmt.values[r])], <<",", LF>>)
    IN  INSERT_INTO \o table_name \o <<" ", "(">> \o columns \o <<")">>
        \o VALUES_LF \o values_str \o <<";">>

-----------------------------------------------------------------------------
(* calamine Data cells and their conversion (data_model.rs:32) *)

DataEmpty == [kind |-> "Empty"]
DataString(s) == [kind |-> "String", s |-> s]
DataFloat(f) == [kind |-> "Float", f |-> f]
DataInt(i) == [kind |-> "Int", i |-> i]
DataBool(b) == [kind |-> "Bool", b |-> b]
DataDateTime(dt) == [kind |-> "DateTime", dt |-> dt]
DataError(e) == [kind |-> "Error", e |-> e]
DataDateTimeIso(s) == [kind |-> "DateTimeIso", s |-> s]
DataDurationIso(s) == [kind |-> "DurationIso", s |-> s]

\* the thread unwinds: no SqlValue is produced
Panic == [kind |-> "Panic"]

\* NaiveDate::from_ymd_opt(1899, 12, 30) as a day number counted from 1970-01-01
excel_epoch == -25569

\* chrono: the largest day count Duration::days accepts
\* (i64::MAX / 1000 / 86400 = 106751991167)
MaxDurationDays == <<1, 0, 6, 7, 5, 1, 9, 9, 1, 1, 6, 7>>

\* chrono: the years a NaiveDate can hold
MIN_YEAR == -262143
MAX_YEAR == 262142

\* day counts of more digits than this are outside every NaiveDate
MaxDateDigits == 9

\* the least day count of more digits than that
DateDaysLimit == BigFromDigits(<<1>> \o Zeros(MaxDateDigits))

\* proleptic Gregorian date of a day number counted from 1970-01-01
civil_from_days(z) ==
    LET zz == z + 719468
        era == zz \div 146097
        doe == zz - era * 146097
        yoe == (doe - doe \div 1460 + doe \div 36524 - doe \div 146096) \div 365
        doy == doe - (365 * yoe + yoe \div 4 - yoe \div 100)
        mp == (5 * doy + 2) \div 153
        d == doy - (153 * mp + 2) \div 5 + 1
        m == IF mp < 10 THEN mp + 3 ELSE mp - 9
        y == yoe + era * 400 + (IF m <= 2 THEN 1 ELSE 0)
    IN  [year |-> y, month |-> m, day |-> d]

date_in_range(z) ==
    LET y == civil_from_days(z).year IN MIN_YEAR <= y /\ y <= MAX_YEAR

\* dt.as_f64() as i64: truncation toward zero, as a sign and a magnitude (the
\* saturation of the cast at i64::MAX lies beyond the f64 values of the model)
days_of(f) == [neg |-> f.neg, n |-> split_f64(f).whole]

\* (dt.as_f64() - days as f64) * 86400.0 before it is rounded, in whole
\* seconds k and a rest: num * 86400 = k * pow + rest with rest < pow.  The
\* subtraction is exact.  k is looked for around the seconds of the numeral's
\* own fraction, from which the fraction of the binary64 differs by at most
\* half of 1 / pow
seconds_split(f) ==
    LET d == Len(f.frac)
        estimate ==
            Let(BigTimes(BigFromDigits(f.frac), NatToBig(SecsPerDay)),
                LAMBDA e : BigToNat(BigFromDigits(
                               SubSeq(BigToDigits(e), 1,
                                      LimbDigits * Len(e) - d))))
        margin(s) == 1 + SecsPerDay \div (2 ^ (IF s < 17 THEN s ELSE 17))
        low(s) == IF estimate > margin(s) THEN estimate - margin(s) ELSE 0
        wholes(x) == {[k |-> k, below |-> BigTimes(NatToBig(k), x.pow)] :
                         k \in low(x.s)..(estimate + margin(x.s))}
        split(x, product, c) ==
            [k |-> c.k,
             rest |-> BigSub(product, c.below),
             pow |-> x.pow,
             s |-> x.s]
    IN  Let(split_f64(f), LAMBDA x :
            IF x.num = <<0>>
            THEN [k |-> 0, rest |-> <<0>>, pow |-> x.pow, s |-> x.s]
            ELSE Let(BigTimes(x.num, NatToBig(SecsPerDay)), LAMBDA product :
                     Let(CHOOSE c \in wholes(x) :
                             /\ BigLeq(c.below, product)
                             /\ BigLess(product, BigAdd(c.below, x.pow)),
                         LAMBDA c : split(x, product, c))))

\* ((dt.as_f64() - days as f64) * 86400.0) as u32.  The product is rounded
\* to 53 significant bits, which carries into the next whole second when the
\* product lies within half a unit in the last place of it; the cast
\* truncates, and a negative product saturates to 0
seconds_of(f) ==
    LET carries(p, e) ==
            /\ e >= 0
            /\ p.rest # <<0>>
            /\ BigLeq(BigSub(p.pow, p.rest), BigPow2(e))
        cast(p) ==
            p.k + (IF carries(p, p.s + BitLength(p.k) - 54) THEN 1 ELSE 0)
    IN  IF f.neg THEN 0 ELSE Let(seconds_split(f), LAMBDA p : cast(p))

\* chrono::Duration::days(days) panics when the count is out of bounds
duration_days_ok(days) == BigLeq(days.n, BigFromDigits(MaxDurationDays))

\* excel_epoch.checked_add_signed(Duration::days(days)): the day number, or
\* None when it leaves the range of NaiveDate
checked_add_days(days) ==
    IF ~BigLess(days.n, DateDaysLimit) THEN [some |-> FALSE]
    ELSE LET n == BigToNat(days.n)
             z == excel_epoch + (IF days.neg THEN -n ELSE n)
         IN  IF date_in_range(z) THEN [some |-> TRUE, z |-> z]
             ELSE [some |-> FALSE]

\* date.and_hms_opt(0, 0, 0).and_then(checked_add_signed(Duration::seconds(s)))
checked_add_seconds(z, s) ==
    LET zz == z + s \div SecsPerDay
    IN  IF date_in_range(zz) THEN [some |-> TRUE, z |-> zz, secs |-> s % SecsPerDay]
        ELSE [some |-> FALSE]

\* %Y of chrono: four digits, signed and at least four digits outside 0..9999
format_year(y) ==
    IF 0 <= y /\ y <= 9999 THEN Pad(y, 4)
    ELSE IF y < 0 THEN <<"-">> \o Pad(-y, 4) ELSE <<"+">> \o Pad(y, 4)

\* datetime.format("%Y-%m-%d %H:%M:%S").to_string()
format_datetime(z, secs) ==
    LET c == civil_from_days(z)
    IN  format_year(c.year) \o <<"-">> \o Pad(c.month, 2) \o <<"-">>
        \o Pad(c.day, 2) \o <<" ">> \o Pad(secs \div 3600, 2) \o <<":">>
        \o Pad((secs % 3600) \div 60, 2) \o <<":">> \o Pad(secs % 60, 2)

\* the Data::DateTime arm of SqlValue::from: days and seconds are computed
\* before anything is done with them
from_excel_datetime(f) ==
    LET convert(days, seconds) ==
            IF ~duration_days_ok(days) THEN Panic
            ELSE LET date == checked_add_days(days)
                 IN  IF date.some
                     THEN LET datetime == checked_add_seconds(date.z, seconds)
                          IN  IF datetime.some
                              THEN DateTime(format_datetime(datetime.z,
                                                            datetime.secs))
                              ELSE Number(f)
                     ELSE Number(f)
    IN  Let(days_of(f), LAMBDA days :
            Let(seconds_of(f), LAMBDA seconds : convert(days, seconds)))

\* impl From<&Data> for SqlValue
SqlValueFrom(cell) ==
    CASE cell.kind = "Empty" -> Null
      [] cell.kind = "String" -> Text(cell.s)
      [] cell.kind = "Float" -> Number(cell.f)
      [] cell.kind = "Int" -> Integer(cell.i)
      [] cell.kind = "Bool" -> Boolean(cell.b)
      [] cell.kind = "DateTime" -> from_excel_datetime(cell.dt)
      [] cell.kind = "Error" -> Null
      [] cell.kind = "DateTimeIso" -> DateTime(cell.s)
      [] cell.kind = "DurationIso" -> Text(cell.s)

-----------------------------------------------------------------------------
(* SheetData (data_model.rs:66): a name and a rectangular range of cells *)

\* Display of calamine Data, used by get_columns for the other cell kinds
DataToString(cell) ==
    CASE cell.kind = "Empty" -> <<>>
      [] cell.kind = "String" -> cell.s
      [] cell.kind = "Float" -> F64ToString(cell.f)
      [] cell.kind = "Int" -> IntToString(cell.i)
      [] cell.kind = "Bool" -> IF cell.b THEN <<"t", "r", "u", "e">>
                               ELSE <<"f", "a", "l", "s", "e">>
      [] cell.kind = "DateTime" -> F64ToString(cell.dt)
      [] cell.kind = "Error" -> cell.e
      [] cell.kind = "DateTimeIso" -> cell.s
      [] cell.kind = "DurationIso" -> cell.s

\* the characters with the Unicode property White_Space, which str::trim
\* removes; one that cannot be written in a string is named by its code point
Whitespace ==
    {"\t", LF, "U+000B", "\f", "\r", " ", "U+0085", "U+00A0", "U+1680",
     "U+2000", "U+2001", "U+2002", "U+2003", "U+2004", "U+2005", "U+2006",
     "U+2007", "U+2008", "U+2009", "U+200A", "U+2028", "U+2029", "U+202F",
     "U+205F", "U+3000"}

\* col.trim().is_empty()
trim_is_empty(col) == \A i \in 1..Len(col) : col[i] \in Whitespace

Ok(v) == [tag |-> "Ok", v |-> v]
Err(e) == [tag |-> "Err", error |-> e]
Aborted == [tag |-> "Panic"]

\* SheetData::get_columns
get_columns(sheet) ==
    IF sheet.range = <<>> THEN Err("EmptySheet")
    ELSE LET first_row == sheet.range[1]
             columns == [c \in 1..Len(first_row) |-> DataToString(first_row[c])]
         IN  IF \A c \in 1..Len(columns) : trim_is_empty(columns[c])
             THEN Err("MissingHeaders")
             ELSE Ok(columns)

\* SheetData::get_data_rows: self.range.rows().skip(1)
get_data_rows(sheet) == IF sheet.range = <<>> THEN <<>> ELSE Tail(sheet.range)

\* row.iter().map(SqlValue::from).collect()
row_values(row) == [c \in 1..Len(row) |-> SqlValueFrom(row[c])]

\* a push that puts the new statement in front of the earlier ones
push_statement_front(acc, sheet, columns, values) ==
    IF values # <<>>
    THEN <<SqlStatement(sheet.name, columns, values)>> \o acc
    ELSE acc

\* if !values.is_empty() { statements.push(SqlStatement { .. }) }
push_statement(acc, sheet, columns, values) ==
    IF values # <<>>
    THEN Append(acc, SqlStatement(sheet.name, columns, values))
    ELSE acc

\* an end of generate without the no-data check
finish_generate_unchecked(acc) == Ok(acc)

\* if statements.is_empty() { return Err(NoData) }  Ok(statements)
finish_generate(acc) == IF acc = <<>> THEN Err("NoData") ELSE Ok(acc)

\* the sheet loop of generate, from the sheets still to visit and the
\* statements pushed so far, down to the value generate returns
RECURSIVE generate_from(_, _)
generate_from(sheets, acc) ==
    IF sheets = <<>> THEN finish_generate(acc)
    ELSE LET sheet == Head(sheets)
             columns == get_columns(sheet)
         IN  IF columns.tag = "Err" THEN columns
             ELSE IF columns.v = <<>> THEN generate_from(Tail(sheets), acc)
             ELSE LET rows == get_data_rows(sheet)
                      values == [r \in 1..Len(rows) |-> row_values(rows[r])]
                  IN  IF \E r \in 1..Len(values) : \E c \in 1..Len(values[r]) :
                             values[r][c].kind = "Panic"
                      THEN Aborted
                      ELSE generate_from(Tail(sheets),
                               push_statement(acc, sheet, columns.v, values))

\* MySqlGenerator::generate
generate(wb) == generate_from(wb.sheets, <<>>)

-----------------------------------------------------------------------------
(* Inputs *)

\* 44927.5 and 1e12 as spreadsheet serials
serial_2023_noon == F64(FALSE, <<4, 4, 9, 2, 7>>, <<5>>)
serial_huge == F64(FALSE, <<1, 0, 0, 0, 0, 0, 0, 0, 0, 0, 0, 0, 0>>, <<>>)

\* the cells a grid is filled from, row after row
CellPool ==
    << DataEmpty,
       DataString(<<" ", "\r">>),
       DataString(<<"a">>),
       DataDateTimeIso(<<"1", QUOTE>>),
       DataInt(7),
       DataDateTime(serial_2023_noon),
       DataBool(TRUE),
       DataDateTime(serial_huge) >>

PatternStarts == {1, 2, 3}

PoolCell(k, r, c, w) ==
    CellPool[((k - 1 + (r - 1) * w + (c - 1)) % Len(CellPool)) + 1]

\* a rectangular range of h rows and w columns
Grid(w, h, k) == [r \in 1..h |-> [c \in 1..w |-> PoolCell(k, r, c, w)]]

Names == {<<"t">>, <<"u", " ", "v">>}

Grids == {Grid(w, h, k) : w \in 1..MaxCols, h \in 0..MaxRows, k \in PatternStarts}

\* the sheets drawn: every name with every shape and pattern of range
Sheets == {[name |-> n, range |-> g] : n \in Names, g \in Grids}

\* the values a statement is filled from, row after row
ValuePool ==
    << Null,
       Text(<<"a", QUOTE>>),
       Number(F64(FALSE, <<3>>, <<1, 4>>)),
       Integer(-42),
       Boolean(TRUE),
       DateTime(<<"1", QUOTE>>),
       Boolean(FALSE),
       Text(malicious_text) >>

ColumnPool == << <<"i", "d">>, <<"n">>, <<>>, <<"a", " ", "b">> >>

PoolValue(k, r, c, w) ==
    ValuePool[((k - 1 + (r - 1) * w + (c - 1)) % Len(ValuePool)) + 1]

Statements ==
    {SqlStatement(n,
                  [c \in 1..w |-> ColumnPool[((k + c) % Len(ColumnPool)) + 1]],
                  [r \in 1..h |-> [c \in 1..w |-> PoolValue(k, r, c, w)]]) :
        n \in Names, w \in 1..MaxCols, h \in 1..MaxRows,
        k \in 1..Len(ValuePool)}

SqlValues ==
    {Text(s) : s \in Strings \cup {malicious_text}}
    \cup {DateTime(s) : s \in Strings}
    \cup {Null, Integer(0), Integer(-42), Boolean(TRUE), Boolean(FALSE),
          Number(F64(TRUE, <<0>>, <<5>>)),
          Number(F64(FALSE, <<1, 0, 0, 0, 0, 0, 0>>, <<>>))}

\* whole parts of the serials drawn
SerialWholes ==
    { <<0>>, <<1>>, <<6, 0>>, <<2, 5, 5, 6, 9>>, <<4, 4, 9, 2, 7>>,
      <<9, 5, 0, 0, 0, 0, 0, 0>>, <<9, 7, 0, 0, 0, 0, 0, 0>>,
      <<1, 9, 9, 9, 9, 9, 9, 9, 9>>, <<1, 0, 0, 0, 0, 0, 0, 0, 0, 0>>,
      MaxDurationDays, <<1, 0, 6, 7, 5, 1, 9, 9, 1, 1, 6, 8>>,
      <<1, 0, 0, 0, 0, 0, 0, 0, 0, 0, 0, 0, 0>> }

\* fractions of a day drawn, as the digits after the point: the tenths (whole
\* seconds of a day that no binary64 holds exactly), the quarters (exact),
\* and fractions that are no whole number of seconds
SerialFracs ==
    {<<>>} \cup {<<d>> : d \in 1..MaxTenths}
    \cup {<<2, 5>>, <<5>>, <<7, 5>>, <<9, 9, 9>>, <<0, 0, 0, 0, 1>>}

Serials ==
    {f \in {F64(neg, w, fr) :
                neg \in BOOLEAN, w \in SerialWholes, fr \in SerialFracs} :
        IsF64(f)}

ShortStrings == {<<>>, <<"a">>, <<QUOTE>>, <<"P", "T", "1", "H">>}

Cells ==
    {DataEmpty, DataInt(0), DataInt(-42), DataBool(TRUE), DataBool(FALSE),
     DataFloat(F64(FALSE, <<3>>, <<1, 4>>)), DataFloat(F64(TRUE, <<0>>, <<5>>)),
     DataError(<<"#", "N", "/", "A">>)}
    \cup {DataString(s) : s \in ShortStrings}
    \cup {DataDateTimeIso(s) : s \in ShortStrings}
    \cup {DataDurationIso(s) : s \in ShortStrings}
    \cup {DataDateTime(f) : f \in Serials}

-----------------------------------------------------------------------------
(* The conversion run of main (main.rs:95) *)

None == [some |-> FALSE]
Some(v) == [some |-> TRUE, v |-> v]
NoValue == [kind |-> "None"]
NoResult == [tag |-> "None"]
NoStatement == SqlStatement(<<>>, <<>>, <<>>)
NoWorkbook == [sheets |-> <<>>]

Init ==
    /\ pc = "parsed"
    /\ \E n \in 0..MaxSheets : \E s \in [1..n -> Sheets] : workbook = [sheets |-> s]
    /\ result = NoResult
    /\ statements = <<>>
    /\ output_content = <<>>
    /\ written = None
    /\ statement = NoStatement /\ sql = None
    /\ sql_value = NoValue /\ escaped = None /\ formatted = None
    /\ data = DataEmpty /\ coerced = NoValue

\* let statements = generator.generate(&workbook_data)?;
Generate ==
    /\ pc = "parsed"
    /\ result' = generate(workbook)
    /\ IF result'.tag = "Ok"
       THEN pc' = "formatting" /\ statements' = result'.v
       ELSE pc' = "failed" /\ statements' = <<>>
    /\ UNCHANGED <<workbook, output_content, written>>
    /\ UNCHANGED <<stmtVars, valueVars, cellVars>>

\* one turn of the loop: push_str(format_statement(..)); push_str("\n\n")
FormatNext ==
    /\ pc = "formatting"
    /\ statements # <<>>
    /\ output_content' =
           output_content \o format_statement(Head(statements)) \o <<LF, LF>>
    /\ statements' = Tail(statements)
    /\ UNCHANGED <<pc, workbook, result, written>>
    /\ UNCHANGED <<stmtVars, valueVars, cellVars>>

\* writer.write(&output_content, &destination)?
Write ==
    /\ pc = "formatting"
    /\ statements = <<>>
    /\ written' = Some(output_content)
    /\ pc' = "done"
    /\ UNCHANGED <<workbook, result, statements, output_content>>
    /\ UNCHANGED <<stmtVars, valueVars, cellVars>>

\* std::fs::write fails: OutputError::Io
WriteFails ==
    /\ pc = "formatting"
    /\ statements = <<>>
    /\ pc' = "failed"
    /\ UNCHANGED mainVars
    /\ UNCHANGED <<stmtVars, valueVars, cellVars>>

Next == Generate \/ FormatNext \/ Write \/ WriteFails

Spec == Init /\ [][Next]_vars

-----------------------------------------------------------------------------
(* format_statement on its own *)

InitStatement ==
    /\ pc = "statement"
    /\ statement \in Statements
    /\ sql = None
    /\ workbook = NoWorkbook /\ result = NoResult /\ statements = <<>>
    /\ output_content = <<>> /\ written = None
    /\ sql_value = NoValue /\ escaped = None /\ formatted = None
    /\ data = DataEmpty /\ coerced = NoValue

FormatStatement ==
    /\ pc = "statement"
    /\ sql' = Some(format_statement(statement))
    /\ pc' = "sql"
    /\ UNCHANGED <<statement, mainVars, valueVars, cellVars>>

NextStatement == FormatStatement

SpecStatement == InitStatement /\ [][NextStatement]_vars

-----------------------------------------------------------------------------
(* format_sql_value and escape_string on their own *)

InitValue ==
    /\ pc = "value"
    /\ sql_value \in SqlValues
    /\ escaped = None /\ formatted = None
    /\ workbook = NoWorkbook /\ result = NoResult /\ statements = <<>>
    /\ output_content = <<>> /\ written = None
    /\ statement = NoStatement /\ sql = None
    /\ data = DataEmpty /\ coerced = NoValue

EscapeString ==
    /\ pc = "value"
    /\ sql_value.kind \in {"Text", "DateTime"}
    /\ escaped' = Some(escape_string(sql_value.s))
    /\ pc' = "escaped"
    /\ UNCHANGED <<sql_value, formatted, mainVars, stmtVars, cellVars>>

FormatValue ==
    /\ pc = "value"
    /\ formatted' = Some(format_sql_value(sql_value))
    /\ pc' = "formatted"
    /\ UNCHANGED <<sql_value, escaped, mainVars, stmtVars, cellVars>>

NextValue == EscapeString \/ FormatValue

SpecValue == InitValue /\ [][NextValue]_vars

-----------------------------------------------------------------------------
(* SqlValue::from on its own *)

InitCell ==
    /\ pc = "cell"
    /\ data \in Cells
    /\ coerced = NoValue
    /\ workbook = NoWorkbook /\ result = NoResult /\ statements = <<>>
    /\ output_content = <<>> /\ written = None
    /\ statement = NoStatement /\ sql = None
    /\ sql_value = NoValue /\ escaped = None /\ formatted = None

Convert ==
    /\ pc = "cell"
    /\ coerced' = SqlValueFrom(data)
    /\ pc' = "converted"
    /\ UNCHANGED <<data, mainVars, stmtVars, valueVars>>

NextCell == Convert

SpecCell == InitCell /\ [][NextCell]_vars

-----------------------------------------------------------------------------
(* Vocabulary of the properties *)

QuoteCount(s) == Cardinality({i \in 1..Len(s) : s[i] = QUOTE})

\* where the i-th character of s lands once every quote before it is doubled
DoubledPos(s, i) == i + Cardinality({j \in 1..(i - 1) : s[j] = QUOTE})

\* t is s with each quote replaced by two quotes
IsDoubling(t, s) ==
    /\ Len(t) = Len(s) + QuoteCount(s)
    /\ \A i \in 1..Len(s) :
          /\ t[DoubledPos(s, i)] = s[i]
          /\ s[i] = QUOTE => t[DoubledPos(s, i) + 1] = QUOTE

\* every maximal run of quotes in t has even length
NoIsolatedQuote(t) ==
    \A i \in 1..Len(t) : \A j \in i..Len(t) :
        ( /\ \A k \in i..j : t[k] = QUOTE
          /\ (i = 1 \/ t[i - 1] # QUOTE)
          /\ (j = Len(t) \/ t[j + 1] # QUOTE) )
        => (j - i + 1) % 2 = 0

\* the standard reading of a literal body: each pair of quotes is one quote
RECURSIVE unescape(_)
unescape(t) ==
    IF t = <<>> THEN <<>>
    ELSE IF Len(t) >= 2 /\ t[1] = QUOTE /\ t[2] = QUOTE
         THEN <<QUOTE>> \o unescape(SubSeq(t, 3, Len(t)))
         ELSE <<Head(t)>> \o unescape(Tail(t))

WithoutQuotes(s) == SelectSeq(s, LAMBDA c : c # QUOTE)

\* the text between the first and the last character
Inner(lit) == SubSeq(lit, 2, Len(lit) - 1)

RECURSIVE Flat(_)
Flat(parts) == IF parts = <<>> THEN <<>> ELSE Head(parts) \o Flat(Tail(parts))

escaped_malicious_literal ==
    <<"'", "'", "'", ";", " ", "D", "R", "O", "P", " ", "T", "A", "B", "L", "E",
      " ", "u", "s", "e", "r", "s", ";", " ", "-", "-", "'">>

\* a quoted literal whose body went through escape_string
escaped_literal(v) ==
    IF v.kind \in {"Text", "DateTime"}
    THEN <<QUOTE>> \o escape_string(v.s) \o <<QUOTE>>
    ELSE format_sql_value(v)

\* the statement text, piece by piece, with R rendering the values
StatementText(stmt, R(_)) ==
    LET w == Len(stmt.columns)
        n == Len(stmt.values)
        column(c) == <<BACKTICK>> \o stmt.columns[c] \o <<BACKTICK>>
                     \o (IF c < w THEN <<",", " ">> ELSE <<>>)
        value(r, c) == R(stmt.values[r][c])
                       \o (IF c < Len(stmt.values[r]) THEN <<",">> ELSE <<>>)
        tuple(r) == <<"(">>
                    \o Flat([c \in 1..Len(stmt.values[r]) |-> value(r, c)])
                    \o <<")">>
                    \o (IF r < n THEN <<",", LF>> ELSE <<";">>)
    IN  <<"I", "N", "S", "E", "R", "T", " ", "I", "N", "T", "O", " ", BACKTICK>>
        \o stmt.table_name \o <<BACKTICK, " ", "(">>
        \o Flat([c \in 1..w |-> column(c)])
        \o <<")", " ", "V", "A", "L", "U", "E", "S", LF>>
        \o Flat([r \in 1..n |-> tuple(r)])

\* the first row of the sheet yields at least one non-blank header string
HeaderOk(sheet) ==
    /\ sheet.range # <<>>
    /\ \E c \in 1..Len(sheet.range[1]) :
          \E i \in 1..Len(DataToString(sheet.range[1][c])) :
              DataToString(sheet.range[1][c])[i] \notin Whitespace

HeaderErrorOf(sheet) ==
    IF sheet.range = <<>> THEN "EmptySheet" ELSE "MissingHeaders"

\* the day offset the specification gives a serial: its floor (for a serial
\* of at most MaxDateDigits digits before the point)
floor_days(f) ==
    LET floor(x, n) ==
            IF ~f.neg THEN n ELSE IF x.num = <<0>> THEN -n ELSE -(n + 1)
        of(x) == floor(x, BigToNat(x.whole))
    IN  of(split_f64(f))

\* round((serial - floor(serial)) * 86400), halves rounded up.  Below zero
\* the fraction above the floor is 1 - num / pow
rounded_seconds(f) ==
    LET above(p) == IF BigLeq(p.pow, BigAdd(p.rest, p.rest)) THEN 1 ELSE 0
        below(p) == IF BigLess(p.pow, BigAdd(p.rest, p.rest)) THEN 1 ELSE 0
        seconds(p) ==
            IF p.k = 0 /\ p.rest = <<0>> THEN 0
            ELSE IF f.neg THEN SecsPerDay - p.k - below(p)
            ELSE p.k + above(p)
    IN  Let(seconds_split(f), LAMBDA p : seconds(p))

\* the date arithmetic of a serial stays inside the range of dates
arithmetic_valid(f) ==
    /\ BigLess(days_of(f).n, DateDaysLimit)
    /\ date_in_range(excel_epoch + floor_days(f))
    /\ date_in_range(excel_epoch + floor_days(f) + 1)

noon_2023 ==
    <<"2", "0", "2", "3", "-", "0", "1", "-", "0", "1", " ",
      "1", "2", ":", "0", "0", ":", "0", "0">>

-----------------------------------------------------------------------------
(* Properties *)

\* C1: the rendering of Text(s) is a quote, s with every quote doubled, a
\* quote; the injection text renders as in test_sql_injection_prevention and
\* no quote stands alone between the delimiters.
C1_TextLiteral ==
    (pc = "formatted" /\ sql_value.kind = "Text") =>
        LET lit == formatted.v
        IN  /\ Len(lit) >= 2
            /\ lit[1] = QUOTE /\ lit[Len(lit)] = QUOTE
            /\ IsDoubling(Inner(lit), sql_value.s)
            /\ NoIsolatedQuote(Inner(lit))
            /\ sql_value.s = malicious_text => lit = escaped_malicious_literal

C1_Witness ==
    /\ pc = "formatted"
    /\ sql_value = Text(malicious_text)
    /\ formatted = Some(escaped_malicious_literal)

\* C3: escape_string(s) has no isolated quote, reads back as s when each pair
\* of quotes is taken for one quote, and leaves the other characters as they
\* are, in order.
C3_EscapeRoundTrip ==
    pc = "escaped" =>
        /\ NoIsolatedQuote(escaped.v)
        /\ unescape(escaped.v) = sql_value.s
        /\ WithoutQuotes(escaped.v) = WithoutQuotes(sql_value.s)
        /\ QuoteCount(escaped.v) = 2 * QuoteCount(sql_value.s)

C3_Witness ==
    /\ pc = "escaped"
    /\ sql_value.s = <<QUOTE, "a", QUOTE>>
    /\ escaped.v = <<QUOTE, QUOTE, "a", QUOTE, QUOTE>>

\* C2: every Text and DateTime value of a statement, a DateTime copied from
\* an ISO datetime cell included, reaches the output as a quoted literal
\* whose body is escape_string of its string.
C2_EveryLiteralEscaped ==
    pc = "done" =>
        written.v =
            Flat([i \in 1..Len(result.v) |->
                     StatementText(result.v[i], escaped_literal) \o <<LF, LF>>])

\* C4: a statement with at least one column and one row is rendered as the
\* INSERT header with the columns joined by comma and space, a newline, one
\* tuple per row with values joined by a bare comma, tuples separated by
\* comma and newline, and one semicolon right after the last tuple.
C4_StatementText ==
    (pc = "sql" /\ statement.columns # <<>> /\ statement.values # <<>>) =>
        sql.v = StatementText(statement, format_sql_value)

C4_Witness ==
    /\ pc = "sql"
    /\ Len(statement.columns) = 2
    /\ Len(statement.values) = 3
    /\ sql.v[Len(sql.v)] = ";"
    /\ sql.v[Len(sql.v) - 1] = ")"

\* C5: on success the statements are, in workbook order, one per sheet that
\* has a data row: the sheet's name, its header strings, one coerced row per
\* data row in grid order, each as long as the column list.
C5_StatementsPerSheet ==
    (pc # "parsed" /\ result.tag = "Ok") =>
        LET sh == workbook.sheets
            withData == {i \in 1..Len(sh) : Len(sh[i].range) >= 2}
            nth(i) == Cardinality({k \in withData : k <= i})
        IN  /\ Len(result.v) = Cardinality(withData)
            /\ \A i \in withData :
                  LET st == result.v[nth(i)]
                      grid == sh[i].range
                  IN  /\ st.table_name = sh[i].name
                      /\ st.columns =
                             [c \in 1..Len(grid[1]) |-> DataToString(grid[1][c])]
                      /\ Len(st.values) = Len(grid) - 1
                      /\ \A r \in 1..Len(st.values) :
                            /\ Len(st.values[r]) = Len(st.columns)
                            /\ \A c \in 1..Len(st.values[r]) :
                                  st.values[r][c] = SqlValueFrom(grid[r + 1][c])

C5_Witness ==
    /\ pc = "formatting"
    /\ result.tag = "Ok"
    /\ Len(result.v) = 2
    /\ result.v[1].table_name # result.v[2].table_name
    /\ Len(result.v[1].values) = 2
    /\ Len(result.v[1].columns) = 2

\* C6: generate returns NoData when every sheet has a non-blank header row
\* and no data row (or there is no sheet); when it returns Ok the list is not
\* empty and every statement has a row.
C6_NoData ==
    pc # "parsed" =>
        /\ (\A i \in 1..Len(workbook.sheets) :
               HeaderOk(workbook.sheets[i]) /\ Len(workbook.sheets[i].range) = 1)
           => result = Err("NoData")
        /\ result.tag = "Ok" =>
               /\ result.v # <<>>
               /\ \A i \in 1..Len(result.v) : result.v[i].values # <<>>

C6_Witness ==
    /\ pc = "failed"
    /\ Len(workbook.sheets) = 2
    /\ \A i \in 1..2 : HeaderOk(workbook.sheets[i])
    /\ result = Err("NoData")

\* C7: when some sheet has an all-blank first row or no row at all, generate
\* returns the error of the first such sheet and no statement.
C7_FirstHeaderError ==
    (pc # "parsed" /\ \E i \in 1..Len(workbook.sheets) :
                         ~HeaderOk(workbook.sheets[i])) =>
        LET first == CHOOSE i \in 1..Len(workbook.sheets) :
                         /\ ~HeaderOk(workbook.sheets[i])
                         /\ \A j \in 1..(i - 1) : HeaderOk(workbook.sheets[j])
        IN  result = Err(HeaderErrorOf(workbook.sheets[first]))

\* C8: a serial whose date arithmetic is valid becomes the DateTime of
\* 1899-12-30 plus floor(serial) days plus the rounded seconds of its
\* fraction; 44927.5 becomes 2023-01-01 12:00:00.
C8_FloorAndRound ==
    (pc = "converted" /\ data.kind = "DateTime" /\ arithmetic_valid(data.dt)) =>
        LET z == excel_epoch + floor_days(data.dt)
            s == rounded_seconds(data.dt)
        IN  /\ coerced =
                 DateTime(format_datetime(z + s \div SecsPerDay, s % SecsPerDay))
            /\ data.dt = serial_2023_noon => coerced = DateTime(noon_2023)

\* C9: the conversion returns a value for every cell, and Number(serial) for
\* a serial whose date arithmetic overflows.
C9_Total ==
    pc = "converted" =>
        /\ coerced.kind \in
               {"Null", "Text", "Number", "Integer", "Boolean", "DateTime"}
        /\ (data.kind = "DateTime" /\ ~arithmetic_valid(data.dt))
               => coerced = Number(data.dt)

\* C10: the text handed to the writer is the formatted statements joined by
\* a blank line, with nothing after the last one.
C10_Blob ==
    pc = "done" =>
        written.v =
            Join([i \in 1..Len(result.v) |-> format_statement(result.v[i])],
                 <<LF, LF>>)
====
